---- MODULE Spec2Model ----
(***************************************************************************)
(* Model of uploading-docs-to-docuware.js: the upload orchestrator main(), *)
(* its helpers (getDocuwareSession, logoffDocuware, uploadToDocuware,      *)
(* processRow, updateDbRecord, connectDb, getPendingRows, closeDb) and the *)
(* staging table 'upload' they read and write.  Each await of main() is    *)
(* one step; the remote service, the file system and SQLite are the        *)
(* environment and answer nondeterministically.                            *)
(***************************************************************************)
EXTENDS Integers, Sequences, FiniteSets, TLC

\* ---- bounds of the model ----
MaxRows == 2      \* rows of the staging table
MaxId == 2        \* identifiers the service hands out: 1..MaxId
MaxRuns == 2      \* successive runs of the script over the same table
MaxCount == 3     \* history counters saturate here
MaxCols == 3      \* columns of a row handed to uploadToDocuware

\* ---- program constants ----
PENDING == 0      \* docuware_id INTEGER DEFAULT 0

ObjIds == 1..MaxRows
DocIds == 1..MaxId
\* docuware_timestamp: NULL, or the text new Date().toISOString() gives
NULL == "NULL"
NowISOString == "ISO8601"
HttpErrorStatuses == {401, 404, 409, 413, 500}

Inc(n) == IF n < MaxCount THEN n + 1 ELSE n

VARIABLES
    store,          \* table upload: obj_id -> [docuware_id, docuware_timestamp]
    run,            \* which run of the script this is
    LOOP_PAUSE,     \* parseInt(process.env.LOOP_PAUSE_MS || '0')
    pc,             \* position of main()
    db,             \* main's db: "null", "open" or "closed"
    loginSuccess,   \* main's loginSuccess
    cookies,        \* cookieJar holds cookies for DOCUWARE_BASE
    rows,           \* main's rows, as fetched
    totalPending,   \* main's totalPending
    i,              \* main's loop index (0-based)
    currentTry,     \* main's currentTry
    uploadResult,   \* processRow's uploadResult, while processRow runs
    exitCode,       \* -1 while the process runs, then its exit code
    mainError,      \* main's outer catch block ran
    progress,       \* per record: tag of the last progress line of this run
    \* ---- history of the run, read by the properties only ----
    outcome,        \* per record: outcome of its last attempt in this run
    attempts,       \* per record: uploads attempted in this run
    relogins,       \* per record: relogins triggered in this run
    writes,         \* per record: UPDATEs applied to it, over all runs
    startStore,     \* the table as it was when this run started
    logoffCalls,    \* calls of logoffDocuware in this run
    logoffFailed,   \* the logoff request of this run failed
    closeDbCalls,   \* calls of closeDb in this run
    dbCloseCalls,   \* calls of db.close in this run
    lastLogin,      \* the requests and answers of the last getDocuwareSession call
    logoffRequests, \* GETs of /Account/Logoff sent in this run
    summary,        \* the last line main logs
    \* ---- inputs and results of the uploader's functions, checked on their own ----
    upEvent,        \* what an upload attempt met
    upResult,       \* what uploadToDocuware made of it
    indexData,      \* a row of the table, as Object.entries lists it
    fieldsToSend    \* the field list built from it

procVars == <<pc, db, loginSuccess, cookies, rows, totalPending, i, currentTry,
              uploadResult, exitCode, mainError, progress>>
histVars == <<outcome, attempts, relogins, writes, startStore, logoffCalls,
              logoffFailed, closeDbCalls, dbCloseCalls>>
obsVars == <<lastLogin, logoffRequests, summary>>
pureVars == <<upEvent, upResult, indexData, fieldsToSend>>
vars == <<store, run, LOOP_PAUSE, procVars, histVars, obsVars, pureVars>>

\* ---- the staging table ----
PendingRow == [docuware_id |-> PENDING, docuware_timestamp |-> NULL]
UploadedRows == [docuware_id : DocIds, docuware_timestamp : {NowISOString}]

RECURSIVE SortedSeqDescending(_)
SortedSeqDescending(S) ==
    IF S = {} THEN <<>>
    ELSE LET m == CHOOSE x \in S : \A y \in S : x >= y
         IN <<m>> \o SortedSeqDescending(S \ {m})

\* ORDER BY obj_id
RECURSIVE SortedSeq(_)
SortedSeq(S) ==
    IF S = {} THEN <<>>
    ELSE LET m == CHOOSE x \in S : \A y \in S : x <= y
         IN <<m>> \o SortedSeq(S \ {m})

getPendingRowsAll(s) ==
    LET ids == SortedSeq(DOMAIN s)
    IN [k \in 1..Len(ids) |-> [obj_id |-> ids[k], docuware_id |-> s[ids[k]].docuware_id]]

\* SELECT * FROM upload WHERE docuware_id = 0 ORDER BY obj_id
getPendingRows(s) ==
    LET ids == SortedSeq({o \in DOMAIN s : s[o].docuware_id = 0})
    IN [k \in 1..Len(ids) |-> [obj_id |-> ids[k], docuware_id |-> s[ids[k]].docuware_id]]

updateDbRecordIdOnly(s, objId, docuwareId, timestamp) ==
    [o \in DOMAIN s |-> IF o = objId THEN [s[o] EXCEPT !.docuware_id = docuwareId]
                        ELSE s[o]]

\* UPDATE upload SET docuware_id = ?, docuware_timestamp = ? WHERE obj_id = ?
updateDbRecord(s, objId, docuwareId, timestamp) ==
    [o \in DOMAIN s |-> IF o = objId
                        THEN [docuware_id |-> docuwareId, docuware_timestamp |-> timestamp]
                        ELSE s[o]]

\* ---- the session manager ----
getDocuwareSessionPostOnly(postOk, probeOk) == postOk

\* the POST to /Account/Logon, then the GET of /FileCabinets; any throw gives false
getDocuwareSession(postOk, probeOk) == postOk /\ probeOk

logoffDocuwareThrowing(hasCookies, requestOk) ==
    [requested |-> hasCookies, failed |-> hasCookies /\ ~requestOk,
     thrown |-> hasCookies /\ ~requestOk]

logoffDocuwareAlwaysRequests(hasCookies, requestOk) ==
    [requested |-> TRUE, failed |-> ~requestOk, thrown |-> FALSE]

\* no request without cookies; a failed request is caught and logged
logoffDocuware(hasCookies, requestOk) ==
    [requested |-> hasCookies, failed |-> hasCookies /\ ~requestOk, thrown |-> FALSE]

\* ---- the uploader ----
\* What one upload attempt meets: a 2xx response whose body has Id (0: absent,
\* null or 0), or an error with a response status (0: no response) and a code.
UploadEvents ==
    [kind : {"response"}, Id : 0..MaxId, status : {200}, code : {""}]
    \cup [kind : {"error"}, Id : {0}, status : HttpErrorStatuses, code : {"ERR_BAD_REQUEST"}]
    \cup [kind : {"error"}, Id : {0}, status : {0}, code : {"ENOENT", "ECONNABORTED"}]

NoResult == [thrown |-> FALSE, docId |-> 0, error |-> "", reason |-> ""]

uploadToDocuwareStatusOnly(ev) ==
    IF ev.kind = "response"
    THEN [NoResult EXCEPT !.docId = ev.Id]
    ELSE IF ev.code = "ENOENT"
    THEN [NoResult EXCEPT !.error = "file_not_found", !.reason = "File not found"]
    ELSE IF ev.status # 0
    THEN IF ev.status = 409
         THEN [NoResult EXCEPT !.error = "skipped_duplicate", !.reason = "HTTP 409 Conflict"]
         ELSE [NoResult EXCEPT !.error = "http_" \o ToString(ev.status),
                               !.reason = "HTTP " \o ToString(ev.status)]
    ELSE [NoResult EXCEPT !.error = "general", !.reason = "Unknown upload error"]

uploadToDocuware(ev) ==
    IF ev.kind = "response"
    THEN [NoResult EXCEPT !.docId = ev.Id]
    ELSE IF ev.status = 401
    THEN [NoResult EXCEPT !.thrown = TRUE]
    ELSE IF ev.code = "ENOENT"
    THEN [NoResult EXCEPT !.error = "file_not_found", !.reason = "File not found"]
    ELSE IF ev.status # 0
    THEN IF ev.status = 409
         THEN [NoResult EXCEPT !.error = "skipped_duplicate", !.reason = "HTTP 409 Conflict"]
         ELSE IF ev.status = 413
         THEN [NoResult EXCEPT !.error = "too_large",
                               !.reason = "HTTP 413 Request Entity Too Large"]
         ELSE [NoResult EXCEPT !.error = "http_" \o ToString(ev.status),
                               !.reason = "HTTP " \o ToString(ev.status)]
    ELSE [NoResult EXCEPT !.error = "general", !.reason = "Unknown upload error"]

processRowBranchAnyResult(r) ==
    IF r.error = "general" THEN "failed" ELSE "update"

\* the branch processRow takes on uploadResult
processRowBranch(r) ==
    IF r.docId # 0 THEN "update"
    ELSE IF r.error = "skipped_duplicate" THEN "skipped"
    ELSE "failed"

\* the outcome of an attempt, in the words of the design
OutcomeOf(r) ==
    IF r.thrown THEN "AuthExpired"
    ELSE IF r.docId # 0 THEN "Success"
    ELSE IF r.error = "skipped_duplicate" THEN "SkippedDuplicate"
    ELSE IF r.error = "general" THEN "GeneralFailure"
    ELSE IF r.error = "" THEN "NoId"
    ELSE "Rejected"

\* ---- main ----
AfterInitialLoginAlways(success) == "connect"

\* if (!loginSuccess) process.exit(1);
AfterInitialLogin(success) == IF success THEN "connect" ELSE "exited"

IndexAfterReloginFailureNext(idx, total) == idx + 1

\* i = totalPending;
IndexAfterReloginFailure(idx, total) == total

Cur == rows[i + 1].obj_id

\* getDocuwareSession: the GET of /FileCabinets is reached only when the POST
\* of /Account/Logon did not throw
ProbeIssued(postOk) == postOk

NoLogin == [called |-> FALSE, postOk |-> FALSE, probed |-> FALSE, probeOk |-> FALSE]

LoginCall(postOk, probeOk) ==
    [called |-> TRUE, postOk |-> postOk, probed |-> ProbeIssued(postOk),
     probeOk |-> ProbeIssued(postOk) /\ probeOk]

NoSummary == [emitted |-> FALSE, text |-> "", hasCount |-> FALSE, count |-> 0]

FinalSummaryWithCount(attempted) ==
    [emitted |-> TRUE, text |-> "Upload process finished.", hasCount |-> TRUE,
     count |-> attempted]

\* console.log(`\nUpload process finished.`): the line interpolates nothing
FinalSummary(attempted) ==
    [emitted |-> TRUE, text |-> "Upload process finished.", hasCount |-> FALSE, count |-> 0]

Attempted == Cardinality({o \in ObjIds : attempts[o] > 0})

NoEvent == [kind |-> "none", Id |-> 0, status |-> 0, code |-> ""]

NoneFor == [o \in ObjIds |-> ""]
ZeroFor == [o \in ObjIds |-> 0]

\* main has not started; nothing was asked of the uploader's functions
ProcessAtStart ==
    /\ run = 1
    /\ pc = "login"
    /\ db = "null"
    /\ loginSuccess = FALSE
    /\ cookies = FALSE
    /\ rows = <<>>
    /\ totalPending = 0
    /\ i = 0
    /\ currentTry = 1
    /\ uploadResult = NoResult
    /\ exitCode = -1
    /\ mainError = FALSE
    /\ progress = NoneFor
    /\ outcome = NoneFor
    /\ attempts = ZeroFor
    /\ relogins = ZeroFor
    /\ writes = ZeroFor
    /\ logoffCalls = 0
    /\ logoffFailed = FALSE
    /\ closeDbCalls = 0
    /\ dbCloseCalls = 0
    /\ lastLogin = NoLogin
    /\ logoffRequests = 0
    /\ summary = NoSummary

PureIdle ==
    /\ upEvent = NoEvent
    /\ upResult = NoResult
    /\ indexData = <<>>
    /\ fieldsToSend = <<>>

Init ==
    /\ store \in [ObjIds -> {PendingRow} \cup {[docuware_id |-> 1, docuware_timestamp |-> NowISOString]}]
    /\ LOOP_PAUSE \in {0, 500}
    /\ startStore = store
    /\ ProcessAtStart
    /\ PureIdle

\* 1. DocuWare Login
InitialLogin ==
    /\ pc = "login"
    /\ \E postOk \in BOOLEAN, probeOk \in BOOLEAN, setCookie \in BOOLEAN :
        /\ loginSuccess' = getDocuwareSession(postOk, probeOk)
        /\ cookies' = (cookies \/ (postOk /\ setCookie))
        /\ lastLogin' = LoginCall(postOk, probeOk)
    /\ pc' = AfterInitialLogin(loginSuccess')
    /\ exitCode' = IF pc' = "exited" THEN 1 ELSE exitCode
    /\ UNCHANGED <<store, run, LOOP_PAUSE, db, rows, totalPending, i, currentTry,
                   uploadResult, mainError, progress, histVars>>
    /\ UNCHANGED <<logoffRequests, summary, pureVars>>

\* 2. Connect to SQLite Update-DB; a rejection lands in main's catch
ConnectDb ==
    /\ pc = "connect"
    /\ \E ok \in BOOLEAN :
        IF ok
        THEN /\ db' = "open"
             /\ pc' = "fetch"
             /\ UNCHANGED mainError
        ELSE /\ mainError' = TRUE
             /\ pc' = "logoff"
             /\ UNCHANGED db
    /\ UNCHANGED <<store, run, LOOP_PAUSE, loginSuccess, cookies, rows, totalPending, i,
                   currentTry, uploadResult, exitCode, progress, histVars>>
    /\ UNCHANGED <<lastLogin, logoffRequests, summary, pureVars>>

\* 3. Get pending upload records; a rejection lands in main's catch
FetchPending ==
    /\ pc = "fetch"
    /\ \E ok \in BOOLEAN :
        IF ok
        THEN /\ rows' = getPendingRows(store)
             /\ totalPending' = Len(rows')
             /\ i' = 0
             /\ pc' = IF totalPending' = 0 THEN "logoff" ELSE "loop"
             /\ UNCHANGED mainError
        ELSE /\ mainError' = TRUE
             /\ pc' = "logoff"
             /\ UNCHANGED <<rows, totalPending, i>>
    /\ UNCHANGED <<store, run, LOOP_PAUSE, db, loginSuccess, cookies, currentTry,
                   uploadResult, exitCode, progress, histVars>>
    /\ UNCHANGED <<lastLogin, logoffRequests, summary, pureVars>>

LoopHeadNoDelayOnRetry ==
    /\ pc = "loop"
    /\ IF i < totalPending
       THEN /\ currentTry' = 1
            /\ pc' = IF LOOP_PAUSE > 0 /\ attempts[Cur] = 0 THEN "sleep" ELSE "upload"
       ELSE /\ pc' = "logoff"
            /\ UNCHANGED currentTry
    /\ UNCHANGED <<store, run, LOOP_PAUSE, db, loginSuccess, cookies, rows, totalPending,
                   i, uploadResult, exitCode, mainError, progress, histVars>>
    /\ UNCHANGED <<lastLogin, logoffRequests, summary, pureVars>>

LoopHeadOffByOne ==
    /\ pc = "loop"
    /\ IF i + 1 < totalPending
       THEN /\ currentTry' = 1
            /\ pc' = IF LOOP_PAUSE > 0 THEN "sleep" ELSE "upload"
       ELSE /\ pc' = "logoff"
            /\ UNCHANGED currentTry
    /\ UNCHANGED <<store, run, LOOP_PAUSE, db, loginSuccess, cookies, rows, totalPending,
                   i, uploadResult, exitCode, mainError, progress, histVars>>
    /\ UNCHANGED <<lastLogin, logoffRequests, summary, pureVars>>

\* while (i < totalPending) { ...; let currentTry = 1; if (LOOP_PAUSE > 0) ...
LoopHead ==
    /\ pc = "loop"
    /\ IF i < totalPending
       THEN /\ currentTry' = 1
            /\ pc' = IF LOOP_PAUSE > 0 THEN "sleep" ELSE "upload"
       ELSE /\ pc' = "logoff"
            /\ UNCHANGED currentTry
    /\ UNCHANGED <<store, run, LOOP_PAUSE, db, loginSuccess, cookies, rows, totalPending,
                   i, uploadResult, exitCode, mainError, progress, histVars>>
    /\ UNCHANGED <<lastLogin, logoffRequests, summary, pureVars>>

\* await sleep(LOOP_PAUSE)
Sleep ==
    /\ pc = "sleep"
    /\ pc' = "upload"
    /\ UNCHANGED <<store, run, LOOP_PAUSE, db, loginSuccess, cookies, rows, totalPending,
                   i, currentTry, uploadResult, exitCode, mainError, progress, histVars>>
    /\ UNCHANGED <<lastLogin, logoffRequests, summary, pureVars>>

\* processRow up to the end of uploadToDocuware, and what follows without a
\* further await: the SKIPPED/FAILED branches and i++, or main's catch
Upload ==
    /\ pc = "upload"
    /\ \E ev \in UploadEvents :
        LET r == uploadToDocuware(ev) IN
        /\ attempts' = [attempts EXCEPT ![Cur] = Inc(@)]
        /\ outcome' = [outcome EXCEPT ![Cur] = OutcomeOf(r)]
        /\ IF r.thrown
           THEN /\ progress' = [progress EXCEPT ![Cur] = "FAILED"]
                /\ IF currentTry = 1
                   THEN /\ pc' = "relogin"
                        /\ UNCHANGED i
                   ELSE /\ pc' = "loop"
                        /\ i' = i + 1
                /\ UNCHANGED uploadResult
           ELSE /\ IF processRowBranch(r) = "update"
                   THEN /\ uploadResult' = r
                        /\ pc' = "update"
                        /\ UNCHANGED <<i, progress>>
                   ELSE /\ uploadResult' = NoResult
                        /\ progress' = [progress EXCEPT ![Cur] =
                               IF processRowBranch(r) = "skipped" THEN "SKIPPED" ELSE "FAILED"]
                        /\ i' = i + 1
                        /\ pc' = "loop"
    /\ UNCHANGED <<store, run, LOOP_PAUSE, db, loginSuccess, cookies, rows, totalPending,
                   currentTry, exitCode, mainError, relogins, writes, startStore,
                   logoffCalls, logoffFailed, closeDbCalls, dbCloseCalls>>
    /\ UNCHANGED <<lastLogin, logoffRequests, summary, pureVars>>

UpdateDbRetrying ==
    /\ pc = "update"
    /\ \E ok \in BOOLEAN :
        IF ok
        THEN /\ store' = updateDbRecord(store, Cur, uploadResult.docId, NowISOString)
             /\ writes' = [writes EXCEPT ![Cur] = Inc(@)]
             /\ progress' = [progress EXCEPT ![Cur] = "SUCCESS"]
             /\ i' = i + 1
             /\ UNCHANGED outcome
        ELSE /\ progress' = [progress EXCEPT ![Cur] = "FAILED"]
             /\ outcome' = [outcome EXCEPT ![Cur] = "UpdateFailed"]
             /\ UNCHANGED <<store, writes, i>>
    /\ uploadResult' = NoResult
    /\ pc' = "loop"
    /\ UNCHANGED <<run, LOOP_PAUSE, db, loginSuccess, cookies, rows, totalPending,
                   currentTry, exitCode, mainError, attempts, relogins,
                   startStore, logoffCalls, logoffFailed, closeDbCalls, dbCloseCalls>>
    /\ UNCHANGED <<lastLogin, logoffRequests, summary, pureVars>>

\* 5. await updateDbRecord(...); a rejection lands in the loop's catch, which
\* for an error that is no SessionExpiredError logs FAILED and does i++
UpdateDb ==
    /\ pc = "update"
    /\ \E ok \in BOOLEAN :
        IF ok
        THEN /\ store' = updateDbRecord(store, Cur, uploadResult.docId, NowISOString)
             /\ writes' = [writes EXCEPT ![Cur] = Inc(@)]
             /\ progress' = [progress EXCEPT ![Cur] = "SUCCESS"]
             /\ UNCHANGED outcome
        ELSE /\ progress' = [progress EXCEPT ![Cur] = "FAILED"]
             /\ outcome' = [outcome EXCEPT ![Cur] = "UpdateFailed"]
             /\ UNCHANGED <<store, writes>>
    /\ uploadResult' = NoResult
    /\ i' = i + 1
    /\ pc' = "loop"
    /\ UNCHANGED <<run, LOOP_PAUSE, db, loginSuccess, cookies, rows, totalPending,
                   currentTry, exitCode, mainError, attempts, relogins,
                   startStore, logoffCalls, logoffFailed, closeDbCalls, dbCloseCalls>>
    /\ UNCHANGED <<lastLogin, logoffRequests, summary, pureVars>>

ReloginAdvancing ==
    /\ pc = "relogin"
    /\ \E postOk \in BOOLEAN, probeOk \in BOOLEAN, setCookie \in BOOLEAN :
        /\ loginSuccess' = getDocuwareSession(postOk, probeOk)
        /\ cookies' = (cookies \/ (postOk /\ setCookie))
        /\ lastLogin' = LoginCall(postOk, probeOk)
    /\ relogins' = [relogins EXCEPT ![Cur] = Inc(@)]
    /\ IF ~loginSuccess'
       THEN /\ i' = IndexAfterReloginFailure(i, totalPending)
            /\ UNCHANGED currentTry
       ELSE /\ currentTry' = currentTry + 1
            /\ i' = i + 1
    /\ pc' = "loop"
    /\ UNCHANGED <<store, run, LOOP_PAUSE, db, rows, totalPending, uploadResult,
                   exitCode, mainError, progress, outcome, attempts, writes, startStore,
                   logoffCalls, logoffFailed, closeDbCalls, dbCloseCalls>>
    /\ UNCHANGED <<logoffRequests, summary, pureVars>>

\* 6. Relogin when session expires
Relogin ==
    /\ pc = "relogin"
    /\ \E postOk \in BOOLEAN, probeOk \in BOOLEAN, setCookie \in BOOLEAN :
        /\ loginSuccess' = getDocuwareSession(postOk, probeOk)
        /\ cookies' = (cookies \/ (postOk /\ setCookie))
        /\ lastLogin' = LoginCall(postOk, probeOk)
    /\ relogins' = [relogins EXCEPT ![Cur] = Inc(@)]
    /\ IF ~loginSuccess'
       THEN /\ i' = IndexAfterReloginFailure(i, totalPending)
            /\ UNCHANGED currentTry
       ELSE /\ currentTry' = currentTry + 1
            /\ UNCHANGED i
    /\ pc' = "loop"
    /\ UNCHANGED <<store, run, LOOP_PAUSE, db, rows, totalPending, uploadResult,
                   exitCode, mainError, progress, outcome, attempts, writes, startStore,
                   logoffCalls, logoffFailed, closeDbCalls, dbCloseCalls>>
    /\ UNCHANGED <<logoffRequests, summary, pureVars>>

\* 8. finally: await logoffDocuware()
Logoff ==
    /\ pc = "logoff"
    /\ logoffCalls' = Inc(logoffCalls)
    /\ \E requestOk \in BOOLEAN :
        LET r == logoffDocuware(cookies, requestOk) IN
        /\ logoffFailed' = r.failed
        /\ logoffRequests' = IF r.requested THEN Inc(logoffRequests) ELSE logoffRequests
        /\ IF r.thrown
           THEN /\ pc' = "crashed"
                /\ exitCode' = 1
           ELSE /\ pc' = "close"
                /\ UNCHANGED exitCode
    /\ UNCHANGED <<store, run, LOOP_PAUSE, db, loginSuccess, cookies, rows, totalPending,
                   i, currentTry, uploadResult, mainError, progress, outcome, attempts,
                   relogins, writes, startStore, closeDbCalls, dbCloseCalls>>
    /\ UNCHANGED <<lastLogin, summary, pureVars>>

\* 9. finally: closeDb(db); then main returns and the process ends
CloseDb ==
    /\ pc = "close"
    /\ closeDbCalls' = Inc(closeDbCalls)
    /\ IF db # "null"
       THEN /\ dbCloseCalls' = Inc(dbCloseCalls)
            /\ \E ok \in BOOLEAN : db' = IF ok THEN "closed" ELSE db
       ELSE UNCHANGED <<db, dbCloseCalls>>
    /\ summary' = FinalSummary(Attempted)
    /\ pc' = "finished"
    /\ exitCode' = 0
    /\ UNCHANGED <<store, run, LOOP_PAUSE, loginSuccess, cookies, rows, totalPending,
                   i, currentTry, uploadResult, mainError, progress, outcome, attempts,
                   relogins, writes, startStore, logoffCalls, logoffFailed>>
    /\ UNCHANGED <<lastLogin, logoffRequests, pureVars>>

\* the script is started again over the same table
NextRun ==
    /\ pc \in {"finished", "exited", "crashed"}
    /\ run < MaxRuns
    /\ run' = run + 1
    /\ pc' = "login"
    /\ db' = "null"
    /\ loginSuccess' = FALSE
    /\ cookies' = FALSE
    /\ rows' = <<>>
    /\ totalPending' = 0
    /\ i' = 0
    /\ currentTry' = 1
    /\ uploadResult' = NoResult
    /\ exitCode' = -1
    /\ mainError' = FALSE
    /\ progress' = NoneFor
    /\ outcome' = NoneFor
    /\ attempts' = ZeroFor
    /\ relogins' = ZeroFor
    /\ startStore' = store
    /\ logoffCalls' = 0
    /\ logoffFailed' = FALSE
    /\ closeDbCalls' = 0
    /\ dbCloseCalls' = 0
    /\ lastLogin' = NoLogin
    /\ logoffRequests' = 0
    /\ summary' = NoSummary
    /\ UNCHANGED <<store, LOOP_PAUSE, writes>>
    /\ UNCHANGED <<pureVars>>

Next ==
    \/ InitialLogin
    \/ ConnectDb
    \/ FetchPending
    \/ LoopHead
    \/ Sleep
    \/ Upload
    \/ UpdateDb
    \/ Relogin
    \/ Logoff
    \/ CloseDb
    \/ NextRun

Spec == Init /\ [][Next]_vars

\* every await of main settles (each request has a timeout), so main always
\* takes its next step
FairSpec == Spec /\ WF_vars(Next)

\* ---- the uploader's error mapping, on its own ----
\* The errors the try block of uploadToDocuware can catch: an axios error that
\* carries a response, or an error without one (fs.readFile, the network,
\* anything else thrown).
ErrorEvents ==
    [kind : {"error"}, Id : {0}, status : (400..431) \cup (500..511),
     code : {"ERR_BAD_REQUEST", "ERR_BAD_RESPONSE"}]
    \cup [kind : {"error"}, Id : {0}, status : {0},
          code : {"ENOENT", "EACCES", "EISDIR", "ECONNABORTED", "ECONNREFUSED",
                  "ERR_NETWORK", ""}]

MainNotStarted ==
    /\ store = [o \in ObjIds |-> PendingRow]
    /\ LOOP_PAUSE = 0
    /\ startStore = store
    /\ ProcessAtStart

ClassifyInit ==
    /\ MainNotStarted
    /\ upEvent \in ErrorEvents
    /\ upResult = NoResult
    /\ indexData = <<>>
    /\ fieldsToSend = <<>>

\* the catch block of uploadToDocuware
Classify ==
    /\ upEvent # NoEvent
    /\ upResult = NoResult
    /\ upResult' = uploadToDocuware(upEvent)
    /\ UNCHANGED <<store, run, LOOP_PAUSE, procVars, histVars, obsVars, upEvent,
                   indexData, fieldsToSend>>

ClassifySpec == ClassifyInit /\ [][Classify]_vars

\* ---- the uploader's field list, on its own ----
\* column names a staging table may use, in several letter cases
ColumnNames ==
    {"obj_id", "OBJ_ID", "archive_guid", "Archive_Guid", "path", "PATH",
     "docuware_id", "DocuWare_ID", "docuware_timestamp", "Docuware_Timestamp",
     "x", "Y", "Customer"}

\* key.toLowerCase()
toLowerCase(k) ==
    CASE k = "OBJ_ID" -> "obj_id"
      [] k = "Archive_Guid" -> "archive_guid"
      [] k = "PATH" -> "path"
      [] k = "DocuWare_ID" -> "docuware_id"
      [] k = "Docuware_Timestamp" -> "docuware_timestamp"
      [] k = "Y" -> "y"
      [] k = "Customer" -> "customer"
      [] OTHER -> k

\* the keys the filter of uploadToDocuware drops
BookkeepingKeys == {"obj_id", "archive_guid", "path", "docuware_id", "docuware_timestamp"}

\* JavaScript's null and undefined, and the column values of the model
JsNull == "<null>"
JsUndefined == "<undefined>"
ColumnValues == {JsNull, "A1"}

\* String(v)
JsString(v) ==
    IF v = JsNull THEN "null" ELSE IF v = JsUndefined THEN "undefined" ELSE v

\* v ?? ''
NullishToEmpty(v) == IF v \in {JsNull, JsUndefined} THEN "" ELSE v

\* indexData[k]
Get(d, k) ==
    IF \E n \in DOMAIN d : d[n].key = k
    THEN d[CHOOSE n \in DOMAIN d : d[n].key = k].value
    ELSE JsUndefined

Field(name, item) == [FieldName |-> name, Item |-> item, ItemElementName |-> "String"]

IsIndexColumnCaseSensitive(e) == e.key \notin BookkeepingKeys

\* the filter: !['obj_id', ...].includes(key.toLowerCase())
IsIndexColumn(e) == toLowerCase(e.key) \notin BookkeepingKeys

\* fieldsToSend: the filtered and mapped entries, then the pushed obj_id field
BuildFields(d) ==
    LET kept == SelectSeq(d, IsIndexColumn)
    IN [n \in 1..Len(kept) |->
            Field(kept[n].key, JsString(NullishToEmpty(kept[n].value)))]
       \o <<Field("obj_id", JsString(Get(d, "obj_id")))>>

\* rows: Object.entries order, column names distinct whatever their case
IndexDatas ==
    UNION {{d \in [1..n -> [key : ColumnNames, value : ColumnValues]] :
                \A j, k \in 1..n :
                    toLowerCase(d[j].key) = toLowerCase(d[k].key) => j = k}
           : n \in 1..MaxCols}

FieldsInit ==
    /\ MainNotStarted
    /\ upEvent = NoEvent
    /\ upResult = NoResult
    /\ indexData \in IndexDatas
    /\ fieldsToSend = <<>>

\* 2. Prepare Index Data
PrepareIndexData ==
    /\ indexData # <<>>
    /\ fieldsToSend = <<>>
    /\ fieldsToSend' = BuildFields(indexData)
    /\ UNCHANGED <<store, run, LOOP_PAUSE, procVars, histVars, obsVars, upEvent,
                   upResult, indexData>>

FieldsSpec == FieldsInit /\ [][PrepareIndexData]_vars

TypeOK ==
    /\ store \in [ObjIds -> {PendingRow} \cup UploadedRows]
    /\ pc \in {"login", "connect", "fetch", "loop", "sleep", "upload", "update",
               "relogin", "logoff", "close", "finished", "exited", "crashed"}
    /\ db \in {"null", "open", "closed"}
    /\ i \in 0..MaxRows
    /\ exitCode \in {-1, 0, 1}

\* ---- properties ----
Pending(s, o) == s[o].docuware_id = 0
ReloginFailed == ~loginSuccess /\ pc \notin {"login", "exited"}
PermanentFailures == {"SkippedDuplicate", "Rejected", "GeneralFailure"}

\* C1: a record's docuware_id changes at most once, only from 0 to a non-zero
\* value, and is never written again, within a run and over successive runs;
\* only records whose docuware_id was 0 when the rows were fetched are attempted.
C1_WrittenOnce ==
    /\ [][\A o \in ObjIds :
            (writes'[o] # writes[o] \/ store'[o] # store[o]) =>
                /\ store[o].docuware_id = 0
                /\ store'[o].docuware_id # 0
                /\ writes[o] = 0]_vars
    /\ [](\A o \in ObjIds :
            /\ writes[o] <= 1
            /\ attempts[o] > 0 => Pending(startStore, o))
    /\ [](pc \in {"upload", "update"} =>
            rows[i + 1].docuware_id = 0 /\ Pending(startStore, Cur))

C1_Witness ==
    /\ run = 2
    /\ \E o \in ObjIds : writes[o] = 1 /\ ~Pending(startStore, o)
    /\ \E p \in ObjIds : attempts[p] > 0 /\ writes[p] = 1 /\ Pending(startStore, p)

\* C2: in every state docuware_timestamp is non-null exactly when docuware_id
\* is not 0, and every record of the table is as it was when the run started or
\* was pending then and now has both fields set.
C2_BothOrNeither ==
    \A o \in ObjIds :
        /\ (store[o].docuware_timestamp # NULL) <=> (store[o].docuware_id # 0)
        /\ \/ store[o] = startStore[o]
           \/ /\ Pending(startStore, o)
              /\ store[o].docuware_id # 0
              /\ store[o].docuware_timestamp # NULL

C2_Witness ==
    /\ pc = "finished"
    /\ \E o \in ObjIds : Pending(startStore, o) /\ store[o].docuware_id # 0
    /\ \E p \in ObjIds : Pending(startStore, p) /\ store[p] = startStore[p]
                         /\ attempts[p] > 0

\* C3: a record triggers at most one relogin in a run and receives at most two
\* upload attempts.
C3_OneReloginPerRecord ==
    \A o \in ObjIds : relogins[o] <= 1 /\ attempts[o] <= 2

\* C4: whatever the service answers, the loop is left and the run finishes.
C4_RunFinishes == (pc = "loop") ~> (pc = "finished")

\* C5: once a relogin has failed no upload is attempted, the table is not
\* written, the loop is over, and logoffDocuware and closeDb are still called.
C5_ReloginFailureAborts ==
    /\ [](ReloginFailed =>
            /\ pc \in {"loop", "logoff", "close", "finished"}
            /\ pc = "loop" => i = totalPending
            /\ pc # "finished" => ENABLED (LoopHead \/ Logoff \/ CloseDb)
            /\ pc = "finished" => logoffCalls = 1 /\ closeDbCalls = 1)
    /\ [][ReloginFailed /\ run' = run =>
            /\ ReloginFailed'
            /\ store' = store
            /\ attempts' = attempts
            /\ writes' = writes]_vars
    /\ [][pc = "relogin" /\ ~loginSuccess' =>
            loginSuccess /\ pc' = "loop" /\ i' = totalPending /\ store' = store]_vars

C5_Witness ==
    /\ pc = "finished"
    /\ ReloginFailed
    /\ logoffCalls = 1
    /\ closeDbCalls = 1
    /\ \E o \in ObjIds : relogins[o] = 1 /\ Pending(store, o)
    /\ \E p \in ObjIds : Pending(startStore, p) /\ attempts[p] = 0 /\ store[p] = startStore[p]

\* C6: a run that got past the initial login ends only through logoffDocuware
\* and then closeDb, each called once; a failed logoff request does not keep
\* closeDb from being called, and the run still ends with exit code 0. closeDb
\* calls db.close once when a connection was opened.
C6_CleanupAlways ==
    /\ pc # "crashed"
    /\ logoffCalls <= 1 /\ closeDbCalls <= 1 /\ dbCloseCalls <= closeDbCalls
    /\ closeDbCalls = 1 => logoffCalls = 1
    /\ pc = "exited" => ~loginSuccess /\ logoffCalls = 0
    /\ pc \in {"login", "connect", "fetch", "loop", "sleep", "upload", "update", "relogin"}
          => logoffCalls = 0 /\ closeDbCalls = 0
    /\ pc = "close" => logoffCalls = 1 /\ closeDbCalls = 0
    /\ pc = "finished" =>
          /\ logoffCalls = 1
          /\ closeDbCalls = 1
          /\ dbCloseCalls = (IF db = "null" THEN 0 ELSE 1)
          /\ exitCode = 0
    /\ logoffFailed => pc \in {"close", "finished"}

C6_Witness ==
    /\ pc = "finished"
    /\ mainError
    /\ logoffFailed
    /\ closeDbCalls = 1
    /\ dbCloseCalls = 1

\* C7: a failed initial login ends the process with exit code 1 before the
\* database is opened, the rows are fetched, an upload is attempted or a record
\* is written; a run that reaches its end has exit code 0.
C7_InitialLoginFailureExits ==
    /\ pc \in {"connect", "fetch"} => loginSuccess
    /\ pc = "exited" =>
          /\ ~loginSuccess
          /\ exitCode = 1
          /\ db = "null"
          /\ rows = <<>>
          /\ store = startStore
          /\ \A o \in ObjIds : attempts[o] = 0
    /\ pc = "finished" => exitCode = 0
    /\ exitCode = 1 => pc = "exited"
    /\ exitCode = -1 <=> pc \notin {"exited", "finished"}

C7_Witness ==
    /\ pc = "exited"
    /\ exitCode = 1
    /\ \E o \in ObjIds : Pending(store, o)

\* C8: a run in which connecting to the database or fetching the rows failed
\* ends with a non-zero exit code.
C8_SetupFailureNonZero ==
    (pc \in {"finished", "exited"} /\ (mainError \/ pc = "exited")) => exitCode \notin {-1, 0}

\* C9 as stated: a second run over the same table attempts no upload.
C9_SecondRunNoAttempts ==
    run >= 2 => \A o \in ObjIds : attempts[o] = 0

\* C9 as amended: a later run attempts only the records still pending when it
\* starts; a record uploaded by an earlier run is never attempted again, and
\* when no record is pending the run attempts nothing.
C9_SecondRunOnlyStillPending ==
    run >= 2 =>
        /\ \A o \in ObjIds : attempts[o] > 0 => Pending(startStore, o)
        /\ \A o \in ObjIds : ~Pending(startStore, o) =>
              /\ attempts[o] = 0
              /\ store[o] = startStore[o]
              /\ \A k \in 1..Len(rows) : rows[k].obj_id # o
        /\ (\A o \in ObjIds : ~Pending(startStore, o)) /\ pc \notin {"login", "connect", "fetch"}
              => pc \in {"logoff", "close", "finished", "exited"}

C9_Witness ==
    /\ run = 2
    /\ pc = "finished"
    /\ totalPending = 0
    /\ db # "null"
    /\ \A o \in ObjIds : ~Pending(startStore, o)
    /\ \E o \in ObjIds : writes[o] = 1

\* C10: an attempt that ends in SkippedDuplicate, Rejected or GeneralFailure
\* leaves the table as it is, does not end the loop, moves on to the next
\* record, and the record is not attempted again in this run.
C10_PermanentFailureAdvances ==
    /\ [][pc = "upload" /\ outcome'[Cur] \in PermanentFailures =>
            /\ store' = store
            /\ writes' = writes
            /\ i' = i + 1
            /\ pc' = "loop"
            /\ totalPending' = totalPending
            /\ loginSuccess' = loginSuccess
            /\ relogins' = relogins]_vars
    /\ [](pc \in {"sleep", "upload", "update", "relogin"} =>
            outcome[Cur] \notin PermanentFailures)
    /\ [][run' = run => i' >= i]_vars
    /\ [](\A j, k \in 1..Len(rows) : rows[j].obj_id = rows[k].obj_id => j = k)

C10_Witness ==
    /\ pc = "upload"
    /\ i = 1
    /\ outcome[rows[1].obj_id] \in PermanentFailures
    /\ store = startStore
    /\ loginSuccess

\* the outcome the design's table gives for an error, with its reason code
C11_Expected(ev) ==
    IF ev.status = 401 THEN <<"AuthExpired", "">>
    ELSE IF ev.status = 409 THEN <<"SkippedDuplicate", "skipped_duplicate">>
    ELSE IF ev.status = 413 THEN <<"Rejected", "too_large">>
    ELSE IF ev.status \in 400..599 THEN <<"Rejected", "http_" \o ToString(ev.status)>>
    ELSE IF ev.code = "ENOENT" THEN <<"Rejected", "file_not_found">>
    ELSE <<"GeneralFailure", "general">>

\* C11: the uploader maps every error to exactly one outcome: 401 to AuthExpired,
\* 409 to SkippedDuplicate, 413 to Rejected(too_large), any other 4xx/5xx to
\* Rejected(http_<status>), a file-not-found error to Rejected(file_not_found),
\* everything else to GeneralFailure; 401 is never Rejected.
C11_OutcomeTable ==
    upResult # NoResult =>
        /\ <<OutcomeOf(upResult), upResult.error>> = C11_Expected(upEvent)
        /\ upResult.thrown <=> upResult.error = ""
        /\ upResult.thrown <=> upEvent.status = 401
        /\ upResult.docId = 0
        /\ OutcomeOf(upResult) \in {"AuthExpired", "SkippedDuplicate", "Rejected",
                                   "GeneralFailure"}

C11_Witness ==
    /\ upEvent.status = 401
    /\ upResult.thrown
    /\ OutcomeOf(upResult) = "AuthExpired"

C13_RetryEndsUploaded ==
    /\ [][pc = "relogin" /\ loginSuccess' => i' = i /\ pc' = "loop"]_vars
    /\ [][pc = "update" /\ relogins[Cur] >= 1 =>
            /\ store'[Cur] = [docuware_id |-> uploadResult.docId,
                              docuware_timestamp |-> NowISOString]
            /\ i' = i + 1]_vars

\* C13 as amended: the attempt that follows a successful relogin is for the
\* same record; when it returns an identifier N the update of that record is
\* the next step, which either sets docuware_id = N and the timestamp or, when
\* the UPDATE fails, leaves the table as it is; only that step moves on to the
\* next record.
C13_RetrySameRecord ==
    /\ [][pc = "relogin" /\ loginSuccess' =>
            i' = i /\ pc' = "loop" /\ rows' = rows /\ store' = store]_vars
    /\ [](\A o \in ObjIds :
            (outcome[o] = "AuthExpired"
             /\ (pc = "relogin" \/ (loginSuccess /\ pc \in {"loop", "sleep", "upload"})))
            => i < totalPending /\ Cur = o)
    /\ [][pc = "upload" /\ relogins[Cur] >= 1 /\ outcome'[Cur] = "Success" =>
            /\ pc' = "update"
            /\ i' = i
            /\ uploadResult'.docId \in DocIds
            /\ store' = store]_vars
    /\ [][pc = "update" /\ relogins[Cur] >= 1 =>
            /\ i' = i + 1
            /\ pc' = "loop"
            /\ \/ store'[Cur] = [docuware_id |-> uploadResult.docId,
                                 docuware_timestamp |-> NowISOString]
               \/ store' = store /\ outcome'[Cur] = "UpdateFailed"
            /\ \A o \in ObjIds \ {Cur} : store'[o] = store[o]]_vars

C13_Witness ==
    /\ pc = "loop"
    /\ i = 1
    /\ totalPending = 2
    /\ relogins[rows[1].obj_id] = 1
    /\ attempts[rows[1].obj_id] = 2
    /\ store[rows[1].obj_id] = [docuware_id |-> 2, docuware_timestamp |-> NowISOString]

\* an attempt on the record is over and nothing of it is left to do
Handled(o) ==
    /\ attempts[o] > 0
    /\ outcome[o] \in {"Success", "SkippedDuplicate", "Rejected", "GeneralFailure",
                       "NoId", "UpdateFailed"}
    /\ outcome[o] = "Success" =>
          writes[o] = 1 /\ store[o].docuware_id # 0 /\ progress[o] = "SUCCESS"
    /\ outcome[o] # "Success" => store[o] = startStore[o]

\* C14: the rows are in ascending obj_id order and are attempted in that order,
\* one at a time: when a record is being attempted every earlier row has been
\* handled (a successful upload has its UPDATE applied) and no later row has
\* been touched.
C14_Sequential ==
    /\ \A j, k \in 1..Len(rows) : j < k => rows[j].obj_id < rows[k].obj_id
    /\ totalPending = Len(rows) /\ i <= totalPending
    /\ uploadResult # NoResult => pc = "update"
    /\ pc \in {"sleep", "upload", "update", "relogin"} =>
          /\ i < totalPending
          /\ \A k \in 1..i : Handled(rows[k].obj_id)
          /\ \A k \in (i + 2)..Len(rows) :
                attempts[rows[k].obj_id] = 0 /\ store[rows[k].obj_id] = startStore[rows[k].obj_id]
          /\ store[Cur] = startStore[Cur]
    /\ pc = "update" => attempts[Cur] > 0 /\ outcome[Cur] = "Success"
    /\ \A j, k \in 1..Len(rows) :
          j < k /\ attempts[rows[k].obj_id] > 0 => Handled(rows[j].obj_id)

C14_Witness ==
    /\ pc = "update"
    /\ i = 1
    /\ outcome[rows[1].obj_id] = "Success"
    /\ store[rows[1].obj_id].docuware_id = 1
    /\ uploadResult.docId = 2

\* C15: with a pause configured every upload attempt, a retry after a relogin
\* included, is entered from the sleep and the sleep leads nowhere else;
\* without a pause there is no sleep.
C15_DelayBeforeEachAttempt ==
    /\ [][pc' = "upload" /\ pc # "upload" =>
            IF LOOP_PAUSE > 0 THEN pc = "sleep" ELSE pc = "loop"]_vars
    /\ [][pc = "sleep" => pc' = "upload"]_vars
    /\ [][pc = "upload" => pc' # "upload"]_vars
    /\ [][(attempts' # attempts \/ outcome' # outcome) /\ run' = run =>
            pc \in {"upload", "update"}]_vars
    /\ [](pc = "sleep" => LOOP_PAUSE > 0)

C15_Witness ==
    /\ LOOP_PAUSE > 0
    /\ pc = "sleep"
    /\ relogins[Cur] = 1
    /\ attempts[Cur] = 1
    /\ loginSuccess

\* C16: getDocuwareSession returns true exactly when the logon POST and the
\* probe GET both succeeded, false otherwise, and the probe is sent only after
\* the POST succeeded; no failure of either reaches main as an error.
C16_LoginBoolean ==
    /\ loginSuccess \in BOOLEAN
    /\ lastLogin.called <=> pc # "login"
    /\ lastLogin.called =>
          /\ loginSuccess <=> (lastLogin.postOk /\ lastLogin.probed /\ lastLogin.probeOk)
          /\ lastLogin.probed <=> lastLogin.postOk
          /\ lastLogin.probeOk => lastLogin.probed
    /\ (lastLogin.called /\ ~loginSuccess) =>
          /\ ~mainError
          /\ pc \in {"exited", "loop", "logoff", "close", "finished"}

C16_Witness ==
    /\ pc = "loop"
    /\ lastLogin.postOk
    /\ lastLogin.probed
    /\ ~lastLogin.probeOk
    /\ ~loginSuccess

\* C17: logoffDocuware sends no request when the cookie jar is empty and one
\* request otherwise; a failed request is not passed on: closeDb follows.
C17_LogoffRequests ==
    /\ pc # "crashed"
    /\ logoffRequests <= logoffCalls
    /\ pc \in {"close", "finished"} =>
          logoffCalls = 1 /\ logoffRequests = (IF cookies THEN 1 ELSE 0)
    /\ logoffFailed => logoffRequests = 1 /\ pc \in {"close", "finished"}
    /\ (logoffFailed /\ pc = "finished") => closeDbCalls = 1 /\ exitCode = 0

C17_Witness ==
    /\ pc = "finished"
    /\ loginSuccess
    /\ ~cookies
    /\ logoffCalls = 1
    /\ logoffRequests = 0

\* C18 as stated: the final line of a finished run carries the count of the
\* records attempted in the run.
C18_SummaryCount ==
    pc = "finished" => summary.emitted /\ summary.hasCount /\ summary.count = Attempted

\* C18 as amended: a finished run has logged, after the calls of logoffDocuware
\* and closeDb, the final line "Upload process finished.", which carries no
\* count; every record attempted has a progress line tagged SUCCESS, SKIPPED
\* or FAILED and no other record has one.
C18_FinalLineNoCount ==
    /\ summary.emitted <=> pc = "finished"
    /\ summary.emitted =>
          /\ summary.text = "Upload process finished."
          /\ ~summary.hasCount
          /\ logoffCalls = 1
          /\ closeDbCalls = 1
    /\ pc # "update" =>
          \A o \in ObjIds :
              /\ attempts[o] > 0 <=> progress[o] \in {"SUCCESS", "SKIPPED", "FAILED"}
              /\ attempts[o] = 0 <=> progress[o] = ""
    /\ \A o \in ObjIds :
          /\ progress[o] = "SUCCESS" <=> (outcome[o] = "Success" /\ writes[o] = 1
                                          /\ store[o] # startStore[o])
          /\ progress[o] = "SKIPPED" <=> outcome[o] = "SkippedDuplicate"

C18_Witness ==
    /\ pc = "finished"
    /\ summary.emitted
    /\ Attempted = 2
    /\ \E o \in ObjIds : progress[o] = "SKIPPED"
    /\ \E o \in ObjIds : progress[o] = "SUCCESS"

\* C19: the table is written only by the UPDATE that follows an upload, with
\* the non-zero Id that upload returned; a 2xx answer without a usable Id is
\* logged FAILED, leaves the record pending and unchanged, and main moves on
\* without attempting the record again.
C19_OnlyReturnedIds ==
    /\ [][store' # store =>
            /\ pc = "update"
            /\ uploadResult.docId \in DocIds
            /\ store'[Cur].docuware_id = uploadResult.docId
            /\ \A o \in ObjIds \ {Cur} : store'[o] = store[o]]_vars
    /\ [][pc = "upload" /\ pc' = "update" =>
            /\ outcome'[Cur] = "Success"
            /\ \E ev \in UploadEvents :
                  ev.kind = "response" /\ ev.Id # 0 /\ uploadResult'.docId = ev.Id]_vars
    /\ [][pc = "upload" /\ outcome'[Cur] = "NoId" =>
            /\ store' = store
            /\ progress'[Cur] = "FAILED"
            /\ i' = i + 1
            /\ pc' = "loop"
            /\ relogins' = relogins
            /\ loginSuccess' = loginSuccess]_vars
    /\ [](\A o \in ObjIds : outcome[o] = "NoId" => store[o] = PendingRow)
    /\ [](pc \in {"sleep", "upload", "update", "relogin"} => outcome[Cur] # "NoId")

C19_Witness ==
    /\ pc = "upload"
    /\ i = 1
    /\ outcome[rows[1].obj_id] = "NoId"
    /\ progress[rows[1].obj_id] = "FAILED"
    /\ store[rows[1].obj_id] = PendingRow

\* C20: when the UPDATE after a successful upload fails, the record is logged
\* FAILED and stays pending, no relogin follows, the loop goes on with the next
\* record, and the record is not uploaded again in this run.
C20_UpdateFailureAdvances ==
    /\ [][pc = "update" /\ outcome'[Cur] = "UpdateFailed" =>
            /\ store' = store
            /\ progress'[Cur] = "FAILED"
            /\ i' = i + 1
            /\ pc' = "loop"
            /\ totalPending' = totalPending
            /\ relogins' = relogins
            /\ attempts' = attempts
            /\ loginSuccess' = loginSuccess
            /\ lastLogin' = lastLogin]_vars
    /\ [](\A o \in ObjIds :
            outcome[o] = "UpdateFailed" => store[o] = PendingRow /\ progress[o] = "FAILED")
    /\ [](pc \in {"sleep", "upload", "update", "relogin"} => outcome[Cur] # "UpdateFailed")

C20_Witness ==
    /\ pc = "upload"
    /\ i = 1
    /\ loginSuccess
    /\ outcome[rows[1].obj_id] = "UpdateFailed"
    /\ store[rows[1].obj_id] = PendingRow
    /\ attempts[rows[1].obj_id] = 1

\* C21: when logoffDocuware is called in a run whose initial login succeeded,
\* whose pending list was fetched and in which no relogin failed, every record
\* that was pending at the fetch has had an upload attempt; the list holds
\* exactly those records and the loop passes over none of them without an
\* attempt. An attempt is made only while the last login call returned true
\* and before logoffDocuware is called, never after either.
C21_AllAttemptedBeforeLogoff ==
    /\ [](LET Fetched == pc \in {"loop", "sleep", "upload", "update", "relogin"}
                         \/ (pc \in {"logoff", "close", "finished"} /\ db # "null" /\ ~mainError)
              RowIds == {rows[k].obj_id : k \in 1..Len(rows)}
          IN  /\ Fetched => RowIds = {o \in ObjIds : Pending(startStore, o)}
              /\ ~Fetched => rows = <<>>
              /\ \A o \in ObjIds : attempts[o] > 0 => o \in RowIds
              /\ (Fetched /\ loginSuccess) =>
                    /\ \A k \in 1..i : attempts[rows[k].obj_id] > 0
                    /\ pc \in {"logoff", "close", "finished"} =>
                          /\ i = totalPending
                          /\ \A o \in ObjIds : Pending(startStore, o) => attempts[o] > 0)
    /\ [](pc \in {"sleep", "upload", "update", "relogin"} =>
              /\ lastLogin.called
              /\ loginSuccess
              /\ logoffCalls = 0
              /\ i < totalPending)
    /\ [](logoffCalls > 0 => pc \in {"close", "finished", "crashed"})
    /\ []((lastLogin.called /\ ~loginSuccess) =>
              /\ pc \in {"exited", "loop", "logoff", "close", "finished"}
              /\ pc = "loop" => i = totalPending)
    /\ [][(attempts' # attempts /\ run' = run) =>
              /\ pc = "upload"
              /\ loginSuccess
              /\ logoffCalls = 0
              /\ attempts' = [attempts EXCEPT ![Cur] = Inc(@)]]_vars
    /\ [][((logoffCalls > 0 \/ (lastLogin.called /\ ~loginSuccess)) /\ run' = run) =>
              attempts' = attempts /\ pc' # "upload" /\ pc' # "sleep"]_vars

C21_Witness ==
    /\ pc = "close"
    /\ logoffCalls = 1
    /\ loginSuccess
    /\ ~mainError
    /\ Len(rows) = 2
    /\ relogins[rows[1].obj_id] = 1
    /\ attempts[rows[1].obj_id] = 2
    /\ attempts[rows[2].obj_id] = 1
    /\ outcome[rows[2].obj_id] = "GeneralFailure"
====
